---- MODULE Spec2Model ----
(***************************************************************************)
(* Model of the Fourier series coefficient calculator (src/src/main.rs).   *)
(*                                                                         *)
(* One run of main() is a state machine: get_args, parse_files,            *)
(* compute_beta, compute_alpha, compute_a_0, compute_a_n, compute_b_n and  *)
(* the printing loops.  The rayon reductions and the per-harmonic workers  *)
(* are separate steps, taken in every order.                               *)
(*                                                                         *)
(* Arithmetic is exact.  An f64 is modelled as a normalised fraction       *)
(* [n, d]; the fraction with d = 0 stands for every non-finite f64 (NaN,   *)
(* +inf, -inf).  The values of a_n and b_n are exact linear combinations   *)
(* of sin(2 pi k/N)/pi^p and cos(2 pi k/N)/pi^p (p = 1, 2), kept           *)
(* coefficient by coefficient.                                             *)
(***************************************************************************)
EXTENDS Integers, Sequences, FiniteSets

\* ------------------------------------------------------------------ bounds
\* Sample values of the signal inputs are the integers -MaxVal..MaxVal.
MaxVal == 1
\* Longest single input file of the signal inputs (number of raw samples).
MaxSamples == 3
\* Largest value of the command line arguments n and n0.
MaxHarm == 2
\* Largest number of input files, and of lines in them all, of the file
\* inputs.
MaxFiles == 2
MaxLines == 2

\* ------------------------------------------------------- exact f64 values
Abs(x) == IF x < 0 THEN -x ELSE x

RECURSIVE GCD(_, _)
GCD(a, b) == IF b = 0 THEN a ELSE GCD(b, a % b)

\* Every non-finite f64: NaN, +inf, -inf.
NonFinite == [n |-> 0, d |-> 0]

IsFinite(x) == x.d # 0

\* The fraction p/q (q # 0) in lowest terms with a positive denominator.
Frac(p, q) ==
  LET g == GCD(Abs(p), Abs(q))
      sgn == IF q < 0 THEN -1 ELSE 1
  IN [n |-> sgn * (p \div g), d |-> sgn * (q \div g)]

\* `x as f64` for an integer x.
AsF64(x) == [n |-> x, d |-> 1]

RZero == AsF64(0)

\* f64 +, -, *, /: a non-finite operand gives a non-finite result, and so
\* does a division by zero (x/0 is +-inf or NaN).  The program divides by
\* values derived from n and from the number of samples only, never by a
\* sample, so x/inf = 0 does not occur.
RAdd(x, y) ==
  IF ~IsFinite(x) \/ ~IsFinite(y) THEN NonFinite
  ELSE IF x.n = 0 THEN y
  ELSE IF y.n = 0 THEN x
  ELSE Frac(x.n * y.d + y.n * x.d, x.d * y.d)

RNeg(x) == IF ~IsFinite(x) THEN NonFinite ELSE [n |-> -x.n, d |-> x.d]

RSub(x, y) == RAdd(x, RNeg(y))

RMul(x, y) ==
  IF ~IsFinite(x) \/ ~IsFinite(y) THEN NonFinite
  ELSE IF x.n = 0 \/ y.n = 0 THEN RZero
  ELSE Frac(x.n * y.n, x.d * y.d)

RDiv(x, y) ==
  IF ~IsFinite(x) \/ ~IsFinite(y) \/ y.n = 0 THEN NonFinite
  ELSE Frac(x.n * y.d, x.d * y.n)

RLess(x, y) == x.n * y.d < y.n * x.d

\* Rational bounds of std::f64::consts::PI: PiLo < pi < PiHi.
PiLo == Frac(333, 106)
PiHi == Frac(355, 113)

\* ------------------------------------------- exact trigonometric values
\* A value of a_n or b_n for a period of N samples is
\*   SUM over p in {1,2}, f in {sin,cos}, k in 0..N-1 of
\*       x[Atom(N, p, f, k)] * f(2 pi k / N) / pi^p,
\* a sequence of 4N coefficients.
Atoms(N) == 1 .. 4 * N

Atom(N, p, f, k) == (2 * (p - 1) + (IF f = "sin" THEN 0 ELSE 1)) * N + k + 1

\* The k of the angle 2 pi k / N of the atom a.
AtomTurn(N, a) == (a - 1) % N

SymZero(N) == [a \in Atoms(N) |-> RZero]

\* q * f(2 pi k / N) / pi^p
SymTerm(N, p, f, k, q) ==
  [a \in Atoms(N) |-> IF a = Atom(N, p, f, k) THEN q ELSE RZero]

SymAdd(x, y) == [a \in DOMAIN x |-> RAdd(x[a], y[a])]

SymSub(x, y) == [a \in DOMAIN x |-> RSub(x[a], y[a])]

SymScale(q, x) == [a \in DOMAIN x |-> RMul(q, x[a])]

SymFinite(x) == \A a \in DOMAIN x : IsFinite(x[a])

\* theta.sin() and theta.cos() for theta = 2 pi k / N where the value is
\* rational: the multiples of a quarter turn.
Rational(N, k) == (4 * k) % N = 0

SinExact(N, k) ==
  IF 4 * k = N THEN 1 ELSE IF 4 * k = 3 * N THEN -1 ELSE 0

CosExact(N, k) ==
  IF k = 0 THEN 1 ELSE IF 2 * k = N THEN -1 ELSE 0

\* ---------------------------------------------------------------- inputs
None == <<>>
Some(x) == <<x>>

RECURSIVE Flatten(_)
Flatten(ss) == IF ss = <<>> THEN <<>> ELSE Head(ss) \o Flatten(Tail(ss))

SeqsUpTo(S, lo, hi) == UNION {[1 .. k -> S] : k \in lo .. hi}

\* The samples of the spec's concrete scenario, one per line.
ScenarioFile == <<AsF64(0), AsF64(1), AsF64(0), AsF64(-1)>>

\* What a line of an input file can parse to in the file inputs
\* (str::parse::<f64> reads "NaN", "inf" and "infinity" as well).  Files
\* that cannot be read and lines that do not parse make parse_files panic
\* in expect(); the inputs explored are readable and parse.
FileLines == {AsF64(0), AsF64(1), NonFinite}

\* The runs explored: a command line (n0, n, input files) and the parsed
\* content of each file.  Three families: every finite signal in one file
\* with the default lower limit; every way of splitting short input over
\* files, non-finite lines included; every harmonic range on one signal.
SignalInputs ==
  {[n0 |-> None, n |-> MaxHarm, files |-> <<s>>] :
     s \in SeqsUpTo({AsF64(v) : v \in -MaxVal .. MaxVal}, 1, MaxSamples)}

RECURSIVE TotalLines(_)
TotalLines(files) ==
  IF files = <<>> THEN 0 ELSE Len(Head(files)) + TotalLines(Tail(files))

FileInputs ==
  {[n0 |-> None, n |-> 1, files |-> fs] :
     fs \in {gs \in SeqsUpTo(SeqsUpTo(FileLines, 0, MaxLines), 1, MaxFiles) :
               TotalLines(gs) <= MaxLines}}

ArgInputs ==
  {[n0 |-> n0, n |-> n, files |-> <<ScenarioFile>>] :
     n0 \in {None} \cup {Some(x) : x \in 0 .. MaxHarm}, n \in 0 .. MaxHarm}

Inputs == SignalInputs \cup FileInputs \cup ArgInputs

\* ----------------------------------------------------------------- state
VARIABLES
  cli,      \* the parsed command line and the content of the input files
  pc,       \* the statement of main() about to run, or "exit"
  result,   \* "running", "Ok", "Err" (main returned Err) or a panic
  args,     \* Args: n_min and n_range = lo ..= hi
  data,     \* Vec<f64> returned by parse_files
  beta,     \* Vec<f64> returned by compute_beta
  alpha,    \* Vec<f64> returned by compute_alpha
  partials, \* partial sums of the parallel sum in compute_a_0
  a_0,      \* Option: the value returned by compute_a_0
  order,    \* items of the running parallel collect, in order of completion
  slots,    \* output slots of the running parallel collect: values written
  a_n,      \* Option: Vec<f64> returned by compute_a_n
  b_n,      \* Option: Vec<f64> returned by compute_b_n
  cursor,   \* loop variable n of the printing loops
  out       \* what main() has printed

vars == <<cli, pc, result, args, data, beta, alpha, partials, a_0, order,
          slots, a_n, b_n, cursor, out>>

Init ==
  /\ cli \in Inputs
  /\ pc = "get_args"
  /\ result = "running"
  /\ args = None
  /\ data = <<>>
  /\ beta = <<>>
  /\ alpha = <<>>
  /\ partials = <<>>
  /\ a_0 = None
  /\ order = <<>>
  /\ slots = <<>>
  /\ a_n = None
  /\ b_n = None
  /\ cursor = 0
  /\ out = <<>>

\* -------------------------------------------------------------- get_args
\* get_args: Err when n0 is given and exceeds n, else Args with n_min =
\* n0 (default 1) and n_range = n_min ..= n.
get_args(c) ==
  IF c.n0 # None /\ c.n0[1] > c.n THEN None
  ELSE LET n_min == IF c.n0 # None THEN c.n0[1] ELSE 1
       IN Some([n_min |-> n_min, lo |-> n_min, hi |-> c.n])

GetArgs ==
  /\ pc = "get_args"
  /\ args' = get_args(cli)
  /\ IF get_args(cli) = None
     THEN pc' = "exit" /\ result' = "Err"
     ELSE pc' = "parse_files" /\ result' = result
  /\ UNCHANGED <<cli, data, beta, alpha, partials, a_0, order, slots, a_n,
                 b_n, cursor, out>>

\* ----------------------------------------------------------- parse_files
\* The loop over the paths: every file's lines, in order, appended to data.
ReadAll(files) == Flatten(files)

\* Closing the period with the last sample instead of the first.
PushFirst_last(d) == Append(d, d[Len(d)])

\* data.push(data[0])
PushFirst(d) == Append(d, d[1])

ParseFiles ==
  /\ pc = "parse_files"
  /\ IF ReadAll(cli.files) = <<>>
     THEN \* data[0] on an empty Vec panics
          /\ data' = ReadAll(cli.files)
          /\ pc' = "exit"
          /\ result' = "panic: index out of bounds"
     ELSE /\ data' = PushFirst(ReadAll(cli.files))
          /\ pc' = "compute_beta"
          /\ result' = result
  /\ UNCHANGED <<cli, args, beta, alpha, partials, a_0, order, slots, a_n,
                 b_n, cursor, out>>

\* ---------------------------------------------- compute_beta / _alpha
compute_beta(d) == [i \in 1 .. Len(d) - 1 |-> RSub(d[i + 1], d[i])]

\* compute_alpha with the segment index counted from 1.
compute_alpha_from1(d, betas) ==
  [i \in 1 .. Len(d) - 1 |-> RSub(d[i], RMul(betas[i], AsF64(i)))]

compute_alpha(d, betas) ==
  [i \in 1 .. Len(d) - 1 |-> RSub(d[i], RMul(betas[i], AsF64(i - 1)))]

ComputeBeta ==
  /\ pc = "compute_beta"
  /\ beta' = compute_beta(data)
  /\ pc' = "compute_alpha"
  /\ UNCHANGED <<cli, result, args, data, alpha, partials, a_0, order,
                 slots, a_n, b_n, cursor, out>>

ComputeAlpha ==
  /\ pc = "compute_alpha"
  /\ alpha' = compute_alpha(data, beta)
  /\ pc' = "compute_a_0"
  /\ UNCHANGED <<cli, result, args, data, beta, partials, a_0, order,
                 slots, a_n, b_n, cursor, out>>

\* ------------------------------------------------------ parallel sums
\* sum::<f64>() of the items of s by one worker: left to right from 0.0.
RSum(s) ==
  LET f[i \in 0 .. Len(s)] == IF i = 0 THEN RZero ELSE RAdd(f[i - 1], s[i])
  IN f[Len(s)]

\* The same sum of values of a_n or b_n for a period of N samples.
SymSum(s, N) ==
  LET f[i \in 0 .. Len(s)] == IF i = 0 THEN SymZero(N) ELSE SymAdd(f[i - 1], s[i])
  IN f[Len(s)]

\* A split that hands the item before each cut to both neighbouring blocks.
SymParSum_overlap(s, N, cuts) ==
  LET f[i \in 0 .. Len(s)] ==
        IF i = 0 THEN <<SymZero(N), SymZero(N)>>
        ELSE LET prev == f[i - 1]
             IN IF i - 1 \in cuts
                THEN <<SymAdd(prev[1], prev[2]),
                       SymAdd(SymAdd(SymZero(N), s[i - 1]), s[i])>>
                ELSE <<prev[1], SymAdd(prev[2], s[i])>>
      last == f[Len(s)]
  IN SymAdd(last[1], last[2])

\* ParallelIterator::sum() over s split into blocks: cuts holds the
\* positions after which a new block starts.  Every block is summed by one
\* worker, left to right from 0.0, and the block sums are added up, left to
\* right from 0.0.  f[i] is <<the sum of the finished blocks, the sum of the
\* running block>> after item i.
SymParSum(s, N, cuts) ==
  LET f[i \in 0 .. Len(s)] ==
        IF i = 0 THEN <<SymZero(N), SymZero(N)>>
        ELSE LET prev == f[i - 1]
             IN IF i - 1 \in cuts
                THEN <<SymAdd(prev[1], prev[2]), SymAdd(SymZero(N), s[i])>>
                ELSE <<prev[1], SymAdd(prev[2], s[i])>>
      last == f[Len(s)]
  IN SymAdd(last[1], last[2])

\* ----------------------------------------------------------- compute_a_0
\* The summand without the factor 0.5 of the quadratic term.
A0Summand_nohalf(al, be, idx) ==
  RAdd(RMul(al, AsF64(idx)), RMul(be, AsF64(idx * idx)))

\* summand of compute_a_0: alpha*idx + 0.5*beta*idx^2
A0Summand(al, be, idx) ==
  RAdd(RMul(al, AsF64(idx)),
       RMul(RMul(Frac(1, 2), be), AsF64(idx * idx)))

\* The mapped items: summand(idx+1) - summand(idx) for idx = 0 .. N-1.
A0Terms(alphas, betas) ==
  [i \in 1 .. Len(alphas) |->
     RSub(A0Summand(alphas[i], betas[i], i),
          A0Summand(alphas[i], betas[i], i - 1))]

\* ... .sum::<f64>() * (2f64 / (alphas.len() as f64))
A0Scale(total, count) == RMul(total, RDiv(AsF64(2), AsF64(count)))

\* Two adjacent partial sums of the parallel sum are added.
CombineAt(ps, i) ==
  SubSeq(ps, 1, i - 1) \o <<RAdd(ps[i], ps[i + 1])>> \o SubSeq(ps, i + 2, Len(ps))

A0Map ==
  /\ pc = "compute_a_0"
  /\ partials' = A0Terms(alpha, beta)
  /\ pc' = "a_0_sum"
  /\ UNCHANGED <<cli, result, args, data, beta, alpha, a_0, order, slots,
                 a_n, b_n, cursor, out>>

A0Combine ==
  /\ pc = "a_0_sum"
  /\ \E i \in 1 .. Len(partials) - 1 : partials' = CombineAt(partials, i)
  /\ UNCHANGED <<cli, pc, result, args, data, beta, alpha, a_0, order,
                 slots, a_n, b_n, cursor, out>>

A0Finish ==
  /\ pc = "a_0_sum"
  /\ Len(partials) = 1
  /\ a_0' = Some(A0Scale(partials[1], Len(alpha)))
  /\ partials' = <<>>
  /\ pc' = "compute_a_n"
  /\ UNCHANGED <<cli, result, args, data, beta, alpha, order, slots, a_n,
                 b_n, cursor, out>>

\* ------------------------------------------------ compute_a_n / _b_n
\* theta = 2 pi n idx / count is the angle 2 pi k / count, k = n idx mod count.
Turn(n, idx, count) == (n * idx) % count

\* count / (4 PI^2 n^2), without its factor 1/pi^2.
Prefactor(n, count) == RDiv(AsF64(count), AsF64(4 * n * n))

\* summand of compute_a_n:
\*   (count/(4 PI^2 n^2)) * (2 PI n (alpha + beta idx) sin(theta)
\*                           + count beta cos(theta))
AnSummand(al, be, n, idx, count) ==
  LET k == Turn(n, idx, count)
      v == RAdd(al, RMul(be, AsF64(idx)))
  IN SymScale(Prefactor(n, count),
       SymAdd(SymTerm(count, 1, "sin", k, RMul(AsF64(2 * n), v)),
              SymTerm(count, 2, "cos", k, RMul(AsF64(count), be))))

\* The summand of compute_b_n without its leading factor -1.
BnSummand_unsigned(al, be, n, idx, count) ==
  LET k == Turn(n, idx, count)
      v == RAdd(al, RMul(be, AsF64(idx)))
  IN SymScale(Prefactor(n, count),
       SymSub(SymTerm(count, 1, "cos", k, RMul(AsF64(2 * n), v)),
              SymTerm(count, 2, "sin", k, RMul(AsF64(count), be))))

\* summand of compute_b_n:
\*   -1 * (count/(4 PI^2 n^2)) * (2 PI n (alpha + beta idx) cos(theta)
\*                                - count beta sin(theta))
BnSummand(al, be, n, idx, count) ==
  LET k == Turn(n, idx, count)
      v == RAdd(al, RMul(be, AsF64(idx)))
  IN SymScale(RMul(AsF64(-1), Prefactor(n, count)),
       SymSub(SymTerm(count, 1, "cos", k, RMul(AsF64(2 * n), v)),
              SymTerm(count, 2, "sin", k, RMul(AsF64(count), be))))

\* The segment terms with the two evaluations added instead of subtracted.
AnTerms_added(alphas, betas, n) ==
  [i \in 1 .. Len(alphas) |->
     SymAdd(AnSummand(alphas[i], betas[i], n, i, Len(alphas)),
            AnSummand(alphas[i], betas[i], n, i - 1, Len(alphas)))]

AnTerms(alphas, betas, n) ==
  [i \in 1 .. Len(alphas) |->
     SymSub(AnSummand(alphas[i], betas[i], n, i, Len(alphas)),
            AnSummand(alphas[i], betas[i], n, i - 1, Len(alphas)))]

BnTerms(alphas, betas, n) ==
  [i \in 1 .. Len(alphas) |->
     SymSub(BnSummand(alphas[i], betas[i], n, i, Len(alphas)),
            BnSummand(alphas[i], betas[i], n, i - 1, Len(alphas)))]

\* The closure mapped over n_range: the parallel sum over the segments,
\* split at cuts, times 2/count.
Item(terms, count, cuts) ==
  SymScale(RDiv(AsF64(2), AsF64(count)), SymParSum(terms, count, cuts))

\* The same with the segments summed by a single worker.
AnItem(alphas, betas, n) == Item(AnTerms(alphas, betas, n), Len(alphas), {})

BnItem(alphas, betas, n) == Item(BnTerms(alphas, betas, n), Len(alphas), {})

\* The length of the half-open range lo .. hi.
RangeLen_exclusive(r) == IF r.hi >= r.lo THEN r.hi - r.lo ELSE 0

\* n_range.into_par_iter(): item i (from 1) is the harmonic lo + i - 1.
RangeLen(r) == IF r.hi >= r.lo THEN r.hi - r.lo + 1 ELSE 0

HarmonicOf(r, i) == r.lo + i - 1

\* collect() of an indexed parallel iterator: item i is written to slot i.
SlotOf(i) == i

WriteSlot(ss, i, v) == [ss EXCEPT ![SlotOf(i)] = Append(@, v)]

\* The collected Vec: slot by slot.
Collected(ss) == [j \in 1 .. Len(ss) |-> ss[j][Len(ss[j])]]

Pending(r, done) == (1 .. RangeLen(r)) \ {done[j] : j \in 1 .. Len(done)}

Splits(alphas) == SUBSET (1 .. Len(alphas) - 1)

AnStart ==
  /\ pc = "compute_a_n"
  /\ slots' = [j \in 1 .. RangeLen(args[1]) |-> <<>>]
  /\ order' = <<>>
  /\ pc' = "a_n_workers"
  /\ UNCHANGED <<cli, result, args, data, beta, alpha, partials, a_0, a_n,
                 b_n, cursor, out>>

AnWorker ==
  /\ pc = "a_n_workers"
  /\ \E i \in Pending(args[1], order) :
       LET terms == AnTerms(alpha, beta, HarmonicOf(args[1], i))
       IN \E v \in {Item(terms, Len(alpha), cuts) : cuts \in Splits(alpha)} :
            /\ slots' = WriteSlot(slots, i, v)
            /\ order' = Append(order, i)
  /\ UNCHANGED <<cli, pc, result, args, data, beta, alpha, partials, a_0,
                 a_n, b_n, cursor, out>>

AnCollect ==
  /\ pc = "a_n_workers"
  /\ Pending(args[1], order) = {}
  /\ a_n' = Some(Collected(slots))
  /\ slots' = <<>>
  /\ order' = <<>>
  /\ pc' = "compute_b_n"
  /\ UNCHANGED <<cli, result, args, data, beta, alpha, partials, a_0, b_n,
                 cursor, out>>

BnStart ==
  /\ pc = "compute_b_n"
  /\ slots' = [j \in 1 .. RangeLen(args[1]) |-> <<>>]
  /\ order' = <<>>
  /\ pc' = "b_n_workers"
  /\ UNCHANGED <<cli, result, args, data, beta, alpha, partials, a_0, a_n,
                 b_n, cursor, out>>

BnWorker ==
  /\ pc = "b_n_workers"
  /\ \E i \in Pending(args[1], order) :
       LET terms == BnTerms(alpha, beta, HarmonicOf(args[1], i))
       IN \E v \in {Item(terms, Len(alpha), cuts) : cuts \in Splits(alpha)} :
            /\ slots' = WriteSlot(slots, i, v)
            /\ order' = Append(order, i)
  /\ UNCHANGED <<cli, pc, result, args, data, beta, alpha, partials, a_0,
                 a_n, b_n, cursor, out>>

BnCollect ==
  /\ pc = "b_n_workers"
  /\ Pending(args[1], order) = {}
  /\ b_n' = Some(Collected(slots))
  /\ slots' = <<>>
  /\ order' = <<>>
  /\ pc' = "print_a_0"
  /\ UNCHANGED <<cli, result, args, data, beta, alpha, partials, a_0, a_n,
                 cursor, out>>

\* ------------------------------------------------------ main: printing
\* println!("\na_0 =\n\"0{:E}\" ", a_0); the loops start at n_range.start.
MainPrintA0 ==
  /\ pc = "print_a_0"
  /\ out' = Append(out, [name |-> "a_0", n |-> 0, value |-> a_0[1]])
  /\ cursor' = args[1].lo
  /\ pc' = "print_a_n"
  /\ UNCHANGED <<cli, result, args, data, beta, alpha, partials, a_0, order,
                 slots, a_n, b_n>>

\* v[n - n_min], or a panic when the index is out of bounds.
Lookup(v, n, n_min) == IF n - n_min + 1 \in 1 .. Len(v) THEN Some(v[n - n_min + 1]) ELSE None

\* for n in n_range { print!(..., a_n[n - args.n_min]) }
MainPrintAn ==
  /\ pc = "print_a_n"
  /\ IF cursor > args[1].hi
     THEN /\ pc' = "print_b_n"
          /\ cursor' = args[1].lo
          /\ UNCHANGED <<out, result>>
     ELSE IF Lookup(a_n[1], cursor, args[1].n_min) = None
     THEN /\ pc' = "exit"
          /\ result' = "panic: index out of bounds"
          /\ UNCHANGED <<out, cursor>>
     ELSE /\ out' = Append(out, [name |-> "a_n", n |-> cursor,
                                 value |-> Lookup(a_n[1], cursor, args[1].n_min)[1]])
          /\ cursor' = cursor + 1
          /\ UNCHANGED <<pc, result>>
  /\ UNCHANGED <<cli, args, data, beta, alpha, partials, a_0, order, slots,
                 a_n, b_n>>

\* for n in n_range { print!(..., b_n[n - args.n_min]) }; return Ok(())
MainPrintBn ==
  /\ pc = "print_b_n"
  /\ IF cursor > args[1].hi
     THEN /\ pc' = "exit"
          /\ result' = "Ok"
          /\ UNCHANGED <<out, cursor>>
     ELSE IF Lookup(b_n[1], cursor, args[1].n_min) = None
     THEN /\ pc' = "exit"
          /\ result' = "panic: index out of bounds"
          /\ UNCHANGED <<out, cursor>>
     ELSE /\ out' = Append(out, [name |-> "b_n", n |-> cursor,
                                 value |-> Lookup(b_n[1], cursor, args[1].n_min)[1]])
          /\ cursor' = cursor + 1
          /\ UNCHANGED <<pc, result>>
  /\ UNCHANGED <<cli, args, data, beta, alpha, partials, a_0, order, slots,
                 a_n, b_n>>

Next ==
  \/ GetArgs \/ ParseFiles \/ ComputeBeta \/ ComputeAlpha
  \/ A0Map \/ A0Combine \/ A0Finish
  \/ AnStart \/ AnWorker \/ AnCollect
  \/ BnStart \/ BnWorker \/ BnCollect
  \/ MainPrintA0 \/ MainPrintAn \/ MainPrintBn

Spec == Init /\ [][Next]_vars

\* ===================================================== reading the state
\* The raw values of the input, by position: line after line, file after
\* file, in the order the files are given on the command line.
RawCount == TotalLines(cli.files)

RECURSIVE RawValue(_, _)
RawValue(files, j) ==
  IF j <= Len(files[1]) THEN files[1][j]
  ELSE RawValue(Tail(files), j - Len(files[1]))

AllFinite(s) == \A i \in 1 .. Len(s) : IsFinite(s[i])

\* parse_files has returned / compute_alpha has returned.
Loaded == data # <<>>
SegmentsBuilt ==
  Loaded /\ pc \notin {"get_args", "parse_files", "compute_beta", "compute_alpha"}

\* The real number a value of a_n or b_n stands for is P1/pi + P2/pi^2 when
\* every angle with a non-zero coefficient is a multiple of a quarter turn.
SymPart(x, N, p) ==
  RSum(
    [j \in 1 .. N |->
       RAdd(RMul(x[Atom(N, p, "sin", j - 1)], AsF64(SinExact(N, j - 1))),
            RMul(x[Atom(N, p, "cos", j - 1)], AsF64(CosExact(N, j - 1))))])

SymResolved(x, N) ==
  /\ SymFinite(x)
  /\ \A a \in DOMAIN x : Rational(N, AtomTurn(N, a)) \/ x[a] = RZero

SymIsZero(x, N) ==
  /\ SymResolved(x, N)
  /\ SymPart(x, N, 1) = RZero
  /\ SymPart(x, N, 2) = RZero

\* P1/pi + P2/pi^2 > 0, that is P1 pi + P2 > 0, decided with PiLo < pi < PiHi.
SymIsPositive(x, N) ==
  /\ SymResolved(x, N)
  /\ LET P1 == SymPart(x, N, 1)
         P2 == SymPart(x, N, 2)
     IN RLess(RZero, RAdd(RMul(P1, IF RLess(P1, RZero) THEN PiHi ELSE PiLo), P2))

\* ================================================================ claims

\* C1: for a finite sample sequence of length N+1, compute_beta and
\* compute_alpha return N slopes and N intercepts, and for every segment i
\* in [0, N), intercept_i + slope_i * i = sample[i] and
\* intercept_i + slope_i * (i+1) = sample[i+1].
C1_SegmentReconstruction ==
  (SegmentsBuilt /\ AllFinite(data)) =>
    /\ Len(beta) = Len(data) - 1
    /\ Len(alpha) = Len(data) - 1
    /\ \A i \in 0 .. Len(data) - 2 :
         /\ RAdd(alpha[i + 1], RMul(beta[i + 1], AsF64(i))) = data[i + 1]
         /\ RAdd(alpha[i + 1], RMul(beta[i + 1], AsF64(i + 1))) = data[i + 2]

\* A signal of four segments with a non-zero slope on a segment past the
\* first has its segment model built.
C1_Witness ==
  /\ SegmentsBuilt /\ AllFinite(data)
  /\ pc = "exit" /\ Len(alpha) = 3
  /\ \E i \in 2 .. 3 : beta[i] # RZero

\* C10: for a finite closed sample sequence with N >= 1 raw values, every
\* per-segment difference G(i+1) - G(i) equals (sample[i] + sample[i+1])/2
\* and the a_0 returned by compute_a_0 equals 2/N times the sum of the N raw
\* samples.
C10_A0IsTwiceTheMean ==
  (SegmentsBuilt /\ AllFinite(data)) =>
    /\ pc = "a_0_sum" /\ Len(partials) = Len(alpha) =>
         \A i \in 1 .. Len(alpha) :
           partials[i] = RMul(Frac(1, 2), RAdd(data[i], data[i + 1]))
    /\ a_0 # None =>
         a_0[1] = RDiv(RMul(AsF64(2),
                            RSum(SubSeq(data, 1, Len(data) - 1))),
                       AsF64(Len(data) - 1))

\* compute_a_0 has returned a non-zero a_0 for a signal of three segments
\* that is not constant.
C10_Witness ==
  /\ a_0 # None /\ AllFinite(data)
  /\ Len(alpha) = 3
  /\ a_0[1] # RZero
  /\ \E i \in 1 .. 3 : beta[i] # RZero

\* The harmonic range of the run, as get_args builds it.
Range == args[1]
InRange == Range.lo .. Range.hi

\* compute_a_0, compute_a_n, compute_b_n has just returned.
A0Returned == pc = "compute_a_n"
AnReturned == pc = "compute_b_n"
BnReturned == pc = "print_a_0"

\* C2: the a_n and b_n returned by compute_a_n and compute_b_n have exactly
\* n_max - n_min + 1 elements, the element at position n - n_min is the
\* coefficient of harmonic n, and main's lookups a_n[n - n_min] and
\* b_n[n - n_min] are in bounds for every n of the range and print that
\* element, in whatever order the workers finish.
C2_RangeAlignment ==
  /\ AnReturned =>
       /\ Len(a_n[1]) = Range.hi - Range.lo + 1
       /\ \A n \in InRange :
            /\ Lookup(a_n[1], n, Range.n_min) # None
            /\ a_n[1][n - Range.lo + 1] = AnItem(alpha, beta, n)
  /\ BnReturned =>
       /\ Len(b_n[1]) = Range.hi - Range.lo + 1
       /\ \A n \in InRange :
            /\ Lookup(b_n[1], n, Range.n_min) # None
            /\ b_n[1][n - Range.lo + 1] = BnItem(alpha, beta, n)
  /\ (pc = "exit" /\ b_n # None) => result = "Ok"
  /\ \A j \in 1 .. Len(out) :
       /\ out[j].name = "a_n" => out[j].value = a_n[1][out[j].n - Range.lo + 1]
       /\ out[j].name = "b_n" => out[j].value = b_n[1][out[j].n - Range.lo + 1]

\* A range of two harmonics not starting at 1 whose coefficients differ was
\* computed and printed to the end.
C2_Witness ==
  /\ pc = "exit" /\ result = "Ok"
  /\ Range.lo = 0 /\ Range.hi = 1
  /\ Len(b_n[1]) = 2 /\ b_n[1][1] # b_n[1][2]
  /\ Len(out) = 5

\* C3: when all N raw values equal the same finite constant c, a_0 = 2c and
\* a_n = b_n = 0 for every harmonic n >= 1 of the range.
ConstantSignal ==
  /\ Loaded /\ AllFinite(data)
  /\ \A i \in 1 .. Len(data) : data[i] = data[1]

C3_ConstantSignal ==
  ConstantSignal =>
    /\ a_0 # None => a_0[1] = RMul(AsF64(2), data[1])
    /\ a_n # None =>
         \A n \in InRange : n >= 1 =>
           SymIsZero(a_n[1][n - Range.lo + 1], Len(alpha))
    /\ b_n # None =>
         \A n \in InRange : n >= 1 =>
           SymIsZero(b_n[1][n - Range.lo + 1], Len(alpha))

\* Three equal non-zero raw values: a_n and b_n were computed for two
\* harmonics.
C3_Witness ==
  /\ ConstantSignal /\ data[1] # RZero /\ Len(alpha) = 3
  /\ b_n # None /\ Len(b_n[1]) = 2 /\ Range.lo = 1

\* C4: raw samples [0, 1, 0, -1] and harmonic range [1, 1] give a_0 = 0,
\* a_1 = 0 and b_1 > 0.
Scenario ==
  /\ cli.files = <<ScenarioFile>>
  /\ args # None /\ Range.lo = 1 /\ Range.hi = 1

C4_Scenario ==
  Scenario =>
    /\ a_0 # None => a_0[1] = RZero
    /\ a_n # None => Len(a_n[1]) = 1 /\ SymIsZero(a_n[1][1], 4)
    /\ b_n # None => Len(b_n[1]) = 1 /\ SymIsPositive(b_n[1][1], 4)

C4_Witness == Scenario /\ b_n # None /\ pc = "exit" /\ Len(out) = 3

\* C5: after loading N >= 1 raw values the sample buffer has N+1 elements,
\* the first N are the raw values in input order, the last equals the
\* first, and no later stage changes the buffer.
C5_ClosedBuffer ==
  (RawCount >= 1 /\ pc \notin {"get_args", "parse_files"} /\ result # "Err") =>
    /\ Len(data) = RawCount + 1
    /\ \A j \in 1 .. RawCount : data[j] = RawValue(cli.files, j)
    /\ data[RawCount + 1] = RawValue(cli.files, 1)

\* Two files of one line each, with different values, were loaded and the
\* run went on to its end.
C5_Witness ==
  /\ Len(cli.files) = 2 /\ RawCount = 2
  /\ cli.files[1] # cli.files[2]
  /\ pc = "exit" /\ result = "Ok" /\ Len(data) = 3

\* C9: every partitioning of the segments among workers and every order of
\* combining the partial sums gives the same a_0 and the same a_n and b_n at
\* every output position, and no output slot is written twice.
C9_Deterministic ==
  /\ A0Returned => a_0[1] = A0Scale(RSum(A0Terms(alpha, beta)), Len(alpha))
  /\ \A j \in 1 .. Len(slots) : Len(slots[j]) <= 1
  /\ order # <<>> =>
       LET i == order[Len(order)]
       IN slots[i] = IF pc = "a_n_workers"
                     THEN <<AnItem(alpha, beta, HarmonicOf(Range, i))>>
                     ELSE <<BnItem(alpha, beta, HarmonicOf(Range, i))>>
  /\ AnReturned =>
       a_n[1] = [j \in 1 .. RangeLen(Range) |->
                   AnItem(alpha, beta, HarmonicOf(Range, j))]
  /\ BnReturned =>
       b_n[1] = [j \in 1 .. RangeLen(Range) |->
                   BnItem(alpha, beta, HarmonicOf(Range, j))]

\* The workers of compute_b_n finished in reverse order on a signal of four
\* segments whose b_n differ, after a_0 and a_n were reduced.
C9_Witness ==
  /\ pc = "b_n_workers" /\ order = <<2, 1>>
  /\ a_0 # None /\ a_n # None /\ Len(alpha) = 4
  /\ slots[1] # slots[2]

\* C6: a harmonic range with n_min = 0 or n_min > n_max fails with an error
\* before any sample is loaded or coefficient computed, and nothing is
\* printed.
BadRange ==
  LET n_min == IF cli.n0 # None THEN cli.n0[1] ELSE 1
  IN n_min = 0 \/ n_min > cli.n

C6_BadRangeRejected ==
  BadRange =>
    /\ pc \in {"get_args", "exit"}
    /\ pc = "exit" => result = "Err"
    /\ out = <<>>

\* C7: an empty or single-sample input fails with an error returned to the
\* caller (not a panic) before the segment model or any coefficient is
\* computed, and nothing is printed.
C7_ShortInputRejected ==
  RawCount <= 1 =>
    /\ pc \in {"get_args", "parse_files", "exit"}
    /\ pc = "exit" => result = "Err"
    /\ out = <<>>

\* C8: a run whose input holds a NaN or infinite sample ends in a failure
\* and prints no coefficient.
C8_NonFiniteRejected ==
  (\E j \in 1 .. RawCount : ~IsFinite(RawValue(cli.files, j))) =>
    /\ out = <<>>
    /\ result # "Ok"

====
